---- MODULE Spec2Model ----
(***************************************************************************)
(* Model of the recurrence-rule engine of go-task-scheduler and of the     *)
(* handlers that use it:                                                   *)
(*   pkg/api/nextdate.go  NextDate, afterNow                               *)
(*   pkg/api/addtask.go   checkDate, checkRepeat, addTaskHandler,          *)
(*                        updateTaskHandler, taskDone                      *)
(*   pkg/db/task.go       AddTask, GetTask, UpdateTask, DeleteTask,        *)
(*                        UpdateDate                                       *)
(*                                                                         *)
(* Strings are sequences of one-character strings, so that strings.Split,  *)
(* strings.Fields, strconv.Atoi, time.Parse and Time.Format are modelled   *)
(* by what they do to the characters.  A time.Time holding a calendar date *)
(* (the result of time.Parse or AddDate) is the number of days since       *)
(* 1970-01-01, midnight UTC.  The reference moment now is a record         *)
(* [day, tod]: its calendar day and its time of day in ticks; its          *)
(* location is UTC (nextDayHandler parses now with time.Parse, and the     *)
(* image built by the repository's Dockerfile has no zone database).       *)
(***************************************************************************)
EXTENDS Integers, Sequences, FiniteSets, TLC

(***************************************************************************)
(* Bounds of the model.                                                    *)
(***************************************************************************)
\* iterations of a day-stepping loop after which a run is reported as
\* never returning
MaxIter == 800
\* iterations of the yearly loop that are unfolded
MaxYears == 4
\* applications of checkDate to one task
MaxRuns == 2
\* ticks per day of the reference moment (time of day is 0..TicksPerDay-1)
TicksPerDay == 2
\* rows ever inserted into the table, PUT requests, done requests, days the
\* clock advances and concurrent done requests of one behaviour
MaxTasks == 2
MaxUpdates == 1
MaxDone == 2
MaxTicks == 1
MaxWorkers == 2

(***************************************************************************)
(* Calendar arithmetic of package time (proleptic Gregorian calendar).     *)
(***************************************************************************)
IsLeap(y) == y % 4 = 0 /\ (y % 100 # 0 \/ y % 400 = 0)

DaysIn(y, m) ==
    IF m = 2 THEN (IF IsLeap(y) THEN 29 ELSE 28)
    ELSE IF m \in {4, 6, 9, 11} THEN 30 ELSE 31

\* day number of the civil date y-m-d, 1 <= m <= 12, any d
DaysOfYoe(era, yoe, doy) ==
    era * 146097 + yoe * 365 + yoe \div 4 - yoe \div 100 + doy - 719468

DaysOfYear(yy, mp, d) ==
    DaysOfYoe(yy \div 400, yy % 400, (153 * mp + 2) \div 5 + d - 1)

DaysFromCivil(y, m, d) ==
    DaysOfYear(IF m <= 2 THEN y - 1 ELSE y, IF m > 2 THEN m - 3 ELSE m + 9, d)

\* The civil date [y, m, d] of a day number, in steps: the 400-year era
\* and the day of the era, the year of the era, the day of the year counted
\* from 1 March, the month counted from March.
CivilOfMonth(y, mp, d) ==
    [y |-> IF mp < 10 THEN y ELSE y + 1,
     m |-> IF mp < 10 THEN mp + 3 ELSE mp - 9,
     d |-> d]

CivilOfDoy(y, doy, mp) == CivilOfMonth(y, mp, doy - (153 * mp + 2) \div 5 + 1)

CivilOfYoe(era, doe, yoe) ==
    CivilOfDoy(yoe + era * 400,
               doe - (365 * yoe + yoe \div 4 - yoe \div 100),
               (5 * (doe - (365 * yoe + yoe \div 4 - yoe \div 100)) + 2) \div 153)

CivilOfDoe(era, doe) ==
    CivilOfYoe(era, doe,
               (doe - doe \div 1460 + doe \div 36524 - doe \div 146096) \div 365)

CivilFromDays(z) == CivilOfDoe((z + 719468) \div 146097, (z + 719468) % 146097)

\* time.Date(y, m, d, 0, 0, 0, 0, time.UTC): month and day are normalised,
\* so month 13 is January of the next year and day 0 the last day of the
\* month before
GoDate(y, m, d) ==
    DaysFromCivil(y + ((m - 1) \div 12), ((m - 1) % 12) + 1, 1) + (d - 1)

\* Time.AddDate(years, months, days)
AddCivil(c, years, months, days) == GoDate(c.y + years, c.m + months, c.d + days)

AddDate(date, years, months, days) ==
    AddCivil(CivilFromDays(date), years, months, days)

\* Time.AddDate(0, 0, days) on a calendar date: the day number advances by
\* days (GoDate is linear in its day argument)
AddDays(date, days) == date + days

\* Time.Weekday(): Sunday = 0 ... Saturday = 6 (1970-01-01 was a Thursday)
Weekday(date) == (date + 4) % 7

\* Time.After / Time.Before between a calendar date (midnight) and a moment
Instant(day, tod) == day * TicksPerDay + tod
After(date, now) == Instant(date, 0) > Instant(now.day, now.tod)

(***************************************************************************)
(* Characters and strings.                                                 *)
(***************************************************************************)
Digits == <<"0", "1", "2", "3", "4", "5", "6", "7", "8", "9">>

IsDigit(c) == \E i \in 1..10 : Digits[i] = c

DigitVal(c) == (CHOOSE i \in 1..10 : Digits[i] = c) - 1

DigitChar(n) == Digits[n + 1]

\* unicode.IsSpace, for the characters of the model
IsSpace(c) == c \in {" ", "\t", "\n"}

\* value of a non-empty sequence of digits
RECURSIVE DigitsVal(_)
DigitsVal(s) ==
    IF Len(s) = 0 THEN 0
    ELSE 10 * DigitsVal(SubSeq(s, 1, Len(s) - 1)) + DigitVal(s[Len(s)])

\* strconv.Atoi: an optional sign followed by at least one digit
Atoi(s) ==
    LET body == IF Len(s) > 0 /\ s[1] \in {"+", "-"} THEN Tail(s) ELSE s
    IN  IF Len(body) = 0 \/ \E i \in 1..Len(body) : ~IsDigit(body[i])
        THEN [ok |-> FALSE, val |-> 0]
        ELSE [ok |-> TRUE,
              val |-> IF s[1] = "-" THEN 0 - DigitsVal(body) ELSE DigitsVal(body)]

\* strings.Split(s, sep) for a one-character separator: every occurrence of
\* sep ends a field, so adjacent separators give empty fields
RECURSIVE SplitFrom(_, _, _)
SplitFrom(s, sep, cur) ==
    IF Len(s) = 0 THEN <<cur>>
    ELSE IF s[1] = sep THEN <<cur>> \o SplitFrom(Tail(s), sep, <<>>)
    ELSE SplitFrom(Tail(s), sep, Append(cur, s[1]))

Split(s, sep) == SplitFrom(s, sep, <<>>)

\* strings.Fields: maximal runs of non-space characters
RECURSIVE FieldsFrom(_, _)
FieldsFrom(s, cur) ==
    IF Len(s) = 0 THEN (IF Len(cur) = 0 THEN <<>> ELSE <<cur>>)
    ELSE IF IsSpace(s[1])
         THEN (IF Len(cur) = 0 THEN <<>> ELSE <<cur>>) \o FieldsFrom(Tail(s), <<>>)
    ELSE FieldsFrom(Tail(s), Append(cur, s[1]))

Fields(s) == FieldsFrom(s, <<>>)

\* time.Parse(DateFormat, s): exactly eight digits YYYYMMDD naming a day
\* that exists
ParseCivil(y, m, d) ==
    IF m < 1 \/ m > 12 \/ d < 1 \/ d > DaysIn(y, m)
    THEN [ok |-> FALSE, date |-> 0]
    ELSE [ok |-> TRUE, date |-> DaysFromCivil(y, m, d)]

ParseDate(s) ==
    IF Len(s) # 8 \/ \E i \in 1..Len(s) : ~IsDigit(s[i])
    THEN [ok |-> FALSE, date |-> 0]
    ELSE ParseCivil(DigitsVal(SubSeq(s, 1, 4)), DigitsVal(SubSeq(s, 5, 6)),
                    DigitsVal(SubSeq(s, 7, 8)))

\* Time.Format(DateFormat), for years 0..9999
FormatCivil(c) ==
    << DigitChar(c.y \div 1000), DigitChar((c.y \div 100) % 10),
       DigitChar((c.y \div 10) % 10), DigitChar(c.y % 10),
       DigitChar(c.m \div 10), DigitChar(c.m % 10),
       DigitChar(c.d \div 10), DigitChar(c.d % 10) >>

FormatDate(date) == FormatCivil(CivilFromDays(date))

(***************************************************************************)
(* Results.                                                                *)
(***************************************************************************)
NoResult == [kind |-> "none", val |-> <<>>, err |-> "none"]

\* a returned date string
Returned(s) == [kind |-> "date", val |-> s, err |-> "none"]

\* a returned error
Failed(e) == [kind |-> "error", val |-> <<>>, err |-> e]

\* the call never returns
Hangs == [kind |-> "hang", val |-> <<>>, err |-> "none"]

(***************************************************************************)
(* pkg/api/addtask.go: checkRepeat                                         *)
(***************************************************************************)
Accepted == [ok |-> TRUE, err |-> "none"]

Rejected(e) == [ok |-> FALSE, err |-> e]

checkRepeat(repeat) ==
    IF repeat = <<>> THEN Accepted
    ELSE LET parts == Fields(repeat) IN
    IF Len(parts) < 1 THEN Rejected("BadRepeat")
    ELSE LET unit == parts[1] IN
    CASE unit = <<"d">> ->
            IF Len(parts) # 2 THEN Rejected("BadDFormat")
            ELSE LET num == Atoi(parts[2])
                 IN  IF ~num.ok \/ num.val <= 0
                     THEN Rejected("BadNumber") ELSE Accepted
      [] unit = <<"w">> ->
            IF Len(parts) < 2 THEN Rejected("NoWeekdays")
            ELSE LET dayStrs == Split(parts[2], ",")
                 IN  IF \E i \in 1..Len(dayStrs) :
                            LET dayNum == Atoi(dayStrs[i])
                            IN  ~dayNum.ok \/ dayNum.val < 1 \/ dayNum.val > 7
                     THEN Rejected("BadWeekday") ELSE Accepted
      [] unit = <<"m">> ->
            IF Len(parts) < 2 THEN Rejected("NoMonthDays")
            ELSE LET dayStrs == Split(parts[2], ",")
                 IN  IF \E i \in 1..Len(dayStrs) :
                            LET dayNum == Atoi(dayStrs[i])
                            IN  ~dayNum.ok \/ dayNum.val < -2
                                \/ dayNum.val > 31 \/ dayNum.val = 0
                     THEN Rejected("BadMonthDay") ELSE Accepted
      [] unit = <<"y">> ->
            IF Len(parts) # 1 THEN Rejected("BadYFormat") ELSE Accepted
      [] OTHER -> Rejected("BadUnit")

(***************************************************************************)
(* pkg/api/nextdate.go: afterNow and the loops of NextDate                 *)
(***************************************************************************)
\* afterNow with a strict comparison
afterNowStrict(date, now) == Instant(date, 0) > Instant(now.day, 0)

\* date >= now by calendar day: both sides are truncated to midnight
afterNow(date, now) == ~(Instant(date, 0) < Instant(now.day, 0))

\* A loop "for { date = date.AddDate(0, 0, n); if exit(date) { break } }"
\* leaves after its k-th iteration, for the least k >= 1 whose date
\* satisfies the exit condition.  Each loop below is given by its exit
\* condition at iteration k; a loop that is still running after MaxIter
\* iterations is reported as a call that never returns.

\* the loop of case "d"
DailyExit(date, now, days, k) == afterNow(AddDays(date, k * days), now)

DailyLoop(date, now, days) ==
    IF \E k \in 1..MaxIter : DailyExit(date, now, days, k)
    THEN LET k == CHOOSE k \in 1..MaxIter :
                      /\ DailyExit(date, now, days, k)
                      /\ \A j \in 1..(k - 1) : ~DailyExit(date, now, days, j)
         IN  Returned(FormatDate(AddDays(date, k * days)))
    ELSE Hangs

\* the yearly loop testing the date before it adds a year
RECURSIVE YearlyLoopTestFirst(_, _, _)
YearlyLoopTestFirst(date, now, fuel) ==
    IF afterNow(date, now) THEN Returned(FormatDate(date))
    ELSE IF fuel <= 1 THEN Hangs
    ELSE YearlyLoopTestFirst(AddDate(date, 1, 0, 0), now, fuel - 1)

\* the loop of case "y"; AddDate(1, 0, 0) is applied to the date of the
\* iteration before, so a 29 February becomes a 1 March and stays one
RECURSIVE YearlyLoop(_, _, _)
YearlyLoop(date, now, fuel) ==
    IF afterNow(AddDate(date, 1, 0, 0), now)
    THEN Returned(FormatDate(AddDate(date, 1, 0, 0)))
    ELSE IF fuel <= 1 THEN Hangs
    ELSE YearlyLoop(AddDate(date, 1, 0, 0), now, fuel - 1)

\* the weekday without the mapping of Sunday to 7
IsoWeekdayRaw(date) == Weekday(date)

\* weekday := int(date.Weekday()); if weekday == 0 { weekday = 7 }
IsoWeekday(date) == IF Weekday(date) = 0 THEN 7 ELSE Weekday(date)

\* the loop of case "w"
WeeklyExit(date, now, weekdays, k) ==
    IsoWeekday(AddDays(date, k)) \in weekdays /\ After(AddDays(date, k), now)

WeeklyLoop(date, now, weekdays) ==
    IF \E k \in 1..MaxIter : WeeklyExit(date, now, weekdays, k)
    THEN LET k == CHOOSE k \in 1..MaxIter :
                      /\ WeeklyExit(date, now, weekdays, k)
                      /\ \A j \in 1..(k - 1) : ~WeeklyExit(date, now, weekdays, j)
         IN  Returned(FormatDate(AddDays(date, k)))
    ELSE Hangs

\* day 0 of the month itself: the last day of the month before
LastDayOfPrev(year, month) == CivilFromDays(GoDate(year, month, 0)).d

\* time.Date(year, time.Month(month)+1, 0, 0, 0, 0, 0, time.UTC).Day()
LastDay(year, month) == CivilFromDays(GoDate(year, month + 1, 0)).d

\* isMatch taking 28 for the last day of every February
IsMatchShortFebruary(c, dayFlags, hasMinus1, hasMinus2) ==
    \/ c.d \in dayFlags
    \/ hasMinus1 /\ c.d = (IF c.m = 2 THEN 28 ELSE LastDay(c.y, c.m))
    \/ hasMinus2 /\ c.d = (IF c.m = 2 THEN 28 ELSE LastDay(c.y, c.m)) - 1

\* isMatch of the loop of case "m"
IsMatch(c, dayFlags, hasMinus1, hasMinus2) ==
    \/ c.d \in dayFlags
    \/ hasMinus1 /\ c.d = LastDay(c.y, c.m)
    \/ hasMinus2 /\ c.d = LastDay(c.y, c.m) - 1

\* the loop of case "m"
MonthlyTest(c, dayFlags, hasMinus1, hasMinus2, monthFlags) ==
    c.m \in monthFlags /\ IsMatch(c, dayFlags, hasMinus1, hasMinus2)

MonthlyExit(date, now, dayFlags, hasMinus1, hasMinus2, monthFlags, k) ==
    /\ MonthlyTest(CivilFromDays(AddDays(date, k)),
                   dayFlags, hasMinus1, hasMinus2, monthFlags)
    /\ After(AddDays(date, k), now)

MonthlyLoop(date, now, dayFlags, hasMinus1, hasMinus2, monthFlags) ==
    IF \E k \in 1..MaxIter :
           MonthlyExit(date, now, dayFlags, hasMinus1, hasMinus2, monthFlags, k)
    THEN LET k == CHOOSE k \in 1..MaxIter :
                      /\ MonthlyExit(date, now, dayFlags, hasMinus1, hasMinus2,
                                     monthFlags, k)
                      /\ \A j \in 1..(k - 1) :
                            ~MonthlyExit(date, now, dayFlags, hasMinus1, hasMinus2,
                                         monthFlags, j)
         IN  Returned(FormatDate(AddDays(date, k)))
    ELSE Hangs

\* the numbers of a comma-separated list, parsed with strconv.Atoi
Nums(list) == [i \in 1..Len(list) |-> Atoi(list[i])]

(***************************************************************************)
(* pkg/api/nextdate.go: NextDate                                           *)
(***************************************************************************)
NextDaily(date, now, parts) ==
    IF Len(parts) < 2 THEN Failed("MissingRuleParameter")
    ELSE LET days == Atoi(parts[2])
         IN  IF ~days.ok THEN Failed("InvalidRuleParameter")
             ELSE IF days.val <= 0 \/ days.val > 400 THEN Failed("InvalidRuleParameter")
             ELSE DailyLoop(date, now, days.val)

NextWeekly(date, now, parts) ==
    IF Len(parts) < 2 THEN Failed("MissingRuleParameter")
    ELSE LET ws == Nums(Split(parts[2], ","))
         IN  IF \E i \in 1..Len(ws) : ~ws[i].ok \/ ws[i].val < 1 \/ ws[i].val > 7
             THEN Failed("InvalidRuleParameter")
             ELSE WeeklyLoop(date, now, {ws[i].val : i \in 1..Len(ws)})

NextMonthly(date, now, parts) ==
    IF Len(parts) < 2 THEN Failed("MissingRuleParameter")
    ELSE LET ds == Nums(Split(parts[2], ","))
             ms == IF Len(parts) = 3 THEN Nums(Split(parts[3], ",")) ELSE <<>>
         IN  IF \E i \in 1..Len(ds) : ~ds[i].ok
             THEN Failed("InvalidRuleParameter")
             ELSE IF \E i \in 1..Len(ds) :
                        ~(ds[i].val \in {-1, -2} \/ (ds[i].val >= 1 /\ ds[i].val <= 31))
             THEN Failed("InvalidRuleParameter")
             ELSE IF \E i \in 1..Len(ms) : ~ms[i].ok \/ ms[i].val < 1 \/ ms[i].val > 12
             THEN Failed("InvalidRuleParameter")
             ELSE MonthlyLoop(date, now,
                              {ds[i].val : i \in 1..Len(ds)} \cap (1..31),
                              \E i \in 1..Len(ds) : ds[i].val = -1,
                              \E i \in 1..Len(ds) : ds[i].val = -2,
                              IF Len(parts) = 3
                              THEN {ms[i].val : i \in 1..Len(ms)} ELSE 1..12)

\* NextDate parsing the start date before it looks at the rule
NextDateParseFirst(now, dstart, repeat) ==
    LET t == ParseDate(dstart) IN
    IF ~t.ok THEN Failed("InvalidStartDate")
    ELSE IF repeat = <<>> THEN Failed("EmptyRule")
    ELSE LET parts == Split(repeat, " ") IN
    CASE parts[1] = <<"d">> -> NextDaily(t.date, now, parts)
      [] parts[1] = <<"y">> -> YearlyLoop(t.date, now, MaxYears)
      [] parts[1] = <<"w">> -> NextWeekly(t.date, now, parts)
      [] parts[1] = <<"m">> -> NextMonthly(t.date, now, parts)
      [] OTHER -> Failed("UnsupportedRuleKind")

NextDate(now, dstart, repeat) ==
    IF repeat = <<>> THEN Failed("EmptyRule")
    ELSE LET t == ParseDate(dstart) IN
    IF ~t.ok THEN Failed("InvalidStartDate")
    ELSE LET parts == Split(repeat, " ") IN
    CASE parts[1] = <<"d">> -> NextDaily(t.date, now, parts)
      [] parts[1] = <<"y">> -> YearlyLoop(t.date, now, MaxYears)
      [] parts[1] = <<"w">> -> NextWeekly(t.date, now, parts)
      [] parts[1] = <<"m">> -> NextMonthly(t.date, now, parts)
      [] OTHER -> Failed("UnsupportedRuleKind")

(***************************************************************************)
(* pkg/api/addtask.go: checkDate                                           *)
(***************************************************************************)
\* startOfDay(now): midnight of now's calendar day
startOfDay(now) == [day |-> now.day, tod |-> 0]

Before(date, now) == Instant(date, 0) < Instant(now.day, now.tod)

\* outcome of checkDate: the task as it is left, and "ok", "error" with
\* its cause, or "hang"
Checked(task, kind, err) == [task |-> task, kind |-> kind, err |-> err]

\* lines 77-85 moving only the dates before today
checkRepeatingBefore(task, t, next, now) ==
    IF next.kind = "hang" THEN Checked(task, "hang", "none")
    ELSE IF next.kind = "error" THEN Checked(task, "error", "InvalidRecurrence")
    ELSE IF Before(t.date, startOfDay(now))
    THEN Checked([task EXCEPT !.date = next.val], "ok", "none")
    ELSE Checked(task, "ok", "none")

\* lines 77-85, with next the result of NextDate
checkRepeating(task, t, next, now) ==
    IF next.kind = "hang" THEN Checked(task, "hang", "none")
    ELSE IF next.kind = "error" THEN Checked(task, "error", "InvalidRecurrence")
    ELSE IF ~After(t.date, startOfDay(now))
    THEN Checked([task EXCEPT !.date = next.val], "ok", "none")
    ELSE Checked(task, "ok", "none")

\* lines 65-93 without lines 87-91, a date before today left as it is
checkParsedKeepPast(task, t, now) ==
    IF ~t.ok THEN Checked(task, "error", "InvalidDate")
    ELSE IF task.repeat # <<>>
    THEN checkRepeating(task, t, NextDate(now, task.date, task.repeat), now)
    ELSE Checked(task, "ok", "none")

\* lines 65-93, with t the result of time.Parse
checkParsed(task, t, now) ==
    IF ~t.ok THEN Checked(task, "error", "InvalidDate")
    ELSE IF task.repeat # <<>>
    THEN checkRepeating(task, t, NextDate(now, task.date, task.repeat), now)
    ELSE IF Before(t.date, startOfDay(now))
    THEN Checked([task EXCEPT !.date = FormatDate(now.day)], "ok", "none")
    ELSE Checked(task, "ok", "none")

\* lines 65-93, on the task with its date defaulted
checkDated(task, now) == checkParsed(task, ParseDate(task.date), now)

\* checkDate without lines 61-63, the default of an empty date
checkDateNoDefault(task, now) == checkDated(task, now)

\* checkDate(&task) at the moment now
checkDate(task, now) ==
    checkDated(IF task.date = <<>>
               THEN [task EXCEPT !.date = FormatDate(now.day)] ELSE task, now)

(***************************************************************************)
(* pkg/db/task.go: the table scheduler, a function from the ids of its     *)
(* rows to the rows; a row is a Task without its ID.                       *)
(***************************************************************************)
NoTask == [date |-> <<>>, title |-> "", comment |-> "", repeat |-> <<>>]

EmptyTable == [i \in {} |-> NoTask]

\* INSERT INTO scheduler ..., id the next value of the AUTOINCREMENT key
AddTask(table, id, task) ==
    [i \in DOMAIN table \cup {id} |-> IF i = id THEN task ELSE table[i]]

\* SELECT ... WHERE id = ?
GetTask(table, id) ==
    IF id \in DOMAIN table THEN [ok |-> TRUE, task |-> table[id]]
    ELSE [ok |-> FALSE, task |-> NoTask]

\* UPDATE scheduler SET date=?, title=?, comment=?, repeat=? WHERE id=?
UpdateTask(table, id, task) ==
    IF id \in DOMAIN table THEN [ok |-> TRUE, table |-> [table EXCEPT ![id] = task]]
    ELSE [ok |-> FALSE, table |-> table]

\* DELETE FROM scheduler WHERE id=?
DeleteTask(table, id) ==
    IF id \in DOMAIN table
    THEN [ok |-> TRUE, table |-> [i \in DOMAIN table \ {id} |-> table[i]]]
    ELSE [ok |-> FALSE, table |-> table]

\* UPDATE scheduler SET date=? without its WHERE clause
UpdateDateAll(table, next, id) ==
    IF id \in DOMAIN table
    THEN [ok |-> TRUE, table |-> [i \in DOMAIN table |-> [table[i] EXCEPT !.date = next]]]
    ELSE [ok |-> FALSE, table |-> table]

\* UPDATE scheduler SET date=? WHERE id=?
UpdateDate(table, next, id) ==
    IF id \in DOMAIN table
    THEN [ok |-> TRUE, table |-> [table EXCEPT ![id].date = next]]
    ELSE [ok |-> FALSE, table |-> table]

(***************************************************************************)
(* pkg/api/addtask.go: the handlers of /api/task and /api/task/done. A     *)
(* handler gives the table as it leaves it and the status it answers with, *)
(* "hang" when it never answers.                                           *)
(***************************************************************************)
Out(table, status) == [table |-> table, status |-> status]

\* addTaskHandler after checkDate, r its result
addChecked(table, id, r) ==
    IF r.kind = "hang" THEN Out(table, "hang")
    ELSE IF r.kind = "error" THEN Out(table, "400")
    ELSE Out(AddTask(table, id, r.task), "200")

\* POST /api/task with body task; id is the key the insert will get
addTaskHandler(table, id, task, now) ==
    IF task.title = "" THEN Out(table, "400")
    ELSE addChecked(table, id, checkDate(task, now))

\* updateTaskHandler after checkDate, r its result
updateChecked(table, id, r) ==
    IF r.kind = "hang" THEN Out(table, "hang")
    ELSE IF r.kind = "error" THEN Out(table, "400")
    ELSE IF UpdateTask(table, id, r.task).ok
    THEN Out(UpdateTask(table, id, r.task).table, "200")
    ELSE Out(table, "404")

\* PUT /api/task with body task and task.ID = id
updateTaskHandler(table, id, task, now) ==
    IF task.title = "" THEN Out(table, "400")
    ELSE IF ~checkRepeat(task.repeat).ok THEN Out(table, "400")
    ELSE updateChecked(table, id, checkDate(task, now))

\* taskDone, lines 202-210: the task has no rule
doneDelete(table, id) ==
    IF DeleteTask(table, id).ok THEN Out(DeleteTask(table, id).table, "200")
    ELSE Out(table, "500")

\* taskDone, lines 212-222, with next the result of NextDate
doneNext(table, id, next) ==
    IF next.kind = "hang" THEN Out(table, "hang")
    ELSE IF next.kind = "error" THEN Out(table, "400")
    ELSE IF UpdateDate(table, next.val, id).ok
    THEN Out(UpdateDate(table, next.val, id).table, "200")
    ELSE Out(table, "500")

\* taskDone, lines 202-222, with t the task that GetTask has read
doneGot(table, id, t, now) ==
    IF t.repeat = <<>> THEN doneDelete(table, id)
    ELSE doneNext(table, id, NextDate(now, t.date, t.repeat))

\* POST /api/task/done?id=<id>
taskDone(table, id, now) ==
    IF ~GetTask(table, id).ok THEN Out(table, "404")
    ELSE doneGot(table, id, GetTask(table, id).task, now)

(***************************************************************************)
(* Inputs of the model.                                                    *)
(***************************************************************************)
\* rule strings: "d 1"; "d 7"; "d 400"; "d 401"; "d 500"; "d 0"; "d"; "d x"; "d 1 2"; "d  1"; "y"; "y 1"; " y"; "w 1"; "w 7"; "w 1,3,5"; "w 8"; "w 0"; "w"; "w 1,";
\* "m 1"; "m 31"; "m -1"; "m -2"; "m -1,15"; "m 0"; "m 32"; "m -3"; "m"; "m 30 2"; "m 31 4,6,9,11"; "m 15 1,6"; "m 1 13"; "m 1 a"; "m 1 2 3"; "x 1"; ""; " "
Rules ==
    { <<"d", " ", "1">>,
      <<"d", " ", "7">>,
      <<"d", " ", "4", "0", "0">>,
      <<"d", " ", "4", "0", "1">>,
      <<"d", " ", "5", "0", "0">>,
      <<"d", " ", "0">>,
      <<"d">>,
      <<"d", " ", "x">>,
      <<"d", " ", "1", " ", "2">>,
      <<"d", " ", " ", "1">>,
      <<"y">>,
      <<"y", " ", "1">>,
      <<" ", "y">>,
      <<"w", " ", "1">>,
      <<"w", " ", "7">>,
      <<"w", " ", "1", ",", "3", ",", "5">>,
      <<"w", " ", "8">>,
      <<"w", " ", "0">>,
      <<"w">>,
      <<"w", " ", "1", ",">>,
      <<"m", " ", "1">>,
      <<"m", " ", "3", "1">>,
      <<"m", " ", "-", "1">>,
      <<"m", " ", "-", "2">>,
      <<"m", " ", "-", "1", ",", "1", "5">>,
      <<"m", " ", "0">>,
      <<"m", " ", "3", "2">>,
      <<"m", " ", "-", "3">>,
      <<"m">>,
      <<"m", " ", "3", "0", " ", "2">>,
      <<"m", " ", "3", "1", " ", "4", ",", "6", ",", "9", ",", "1", "1">>,
      <<"m", " ", "1", "5", " ", "1", ",", "6">>,
      <<"m", " ", "1", " ", "1", "3">>,
      <<"m", " ", "1", " ", "a">>,
      <<"m", " ", "1", " ", "2", " ", "3">>,
      <<"x", " ", "1">>,
      <<>>,
      <<" ">> }

\* date strings: well-formed dates around the end of February 2023 and
\* 2024, the empty string, a day that does not exist and a short string
DateStrs ==
    { <<"2", "0", "2", "3", "0", "2", "1", "4">>,
      <<"2", "0", "2", "4", "0", "1", "3", "1">>,
      <<"2", "0", "2", "4", "0", "2", "2", "8">>,
      <<"2", "0", "2", "4", "0", "2", "2", "9">>,
      <<"2", "0", "2", "4", "0", "3", "0", "1">>,
      <<>>,
      <<"2", "0", "2", "4", "0", "2", "3", "0">>,
      <<"2", "0", "2", "4", "0", "2", "2">> }

\* calendar days of the reference moment
NowDays ==
    { DaysFromCivil(2023, 2, 14), DaysFromCivil(2024, 2, 28),
      DaysFromCivil(2024, 2, 29), DaysFromCivil(2024, 3, 1) }

Nows == [day : NowDays, tod : 0..(TicksPerDay - 1)]

\* bodies of the POST and PUT requests: an empty date, the day before the
\* first day of the clock, the day after it and a day that does not
\* exist; no rule, one rule of each kind, a rule that NextDate accepts
\* and checkRepeat rejects ("y 1"), and one that NextDate rejects and
\* checkRepeat accepts ("d 500")
StoreDates ==
    { <<>>,
      <<"2", "0", "2", "4", "0", "2", "2", "7">>,
      <<"2", "0", "2", "4", "0", "2", "2", "9">>,
      <<"2", "0", "2", "4", "0", "2", "3", "0">> }

StoreRules ==
    { <<>>,
      <<"d", " ", "1">>,
      <<"y">>,
      <<"w", " ", "7">>,
      <<"m", " ", "-", "1", ",", "1">>,
      <<"y", " ", "1">>,
      <<"d", " ", "5", "0", "0">> }

Titles == {"", "a"}

Comments == {"c"}

Bodies == [date : StoreDates, title : Titles, comment : Comments, repeat : StoreRules]

\* the moment at which the server starts: midnight of 28 February 2024
StoreNows == {n \in Nows : n.day = DaysFromCivil(2024, 2, 28) /\ n.tod = 0}

\* the answer of the last request: its handler, the id it named and its
\* status
Resp(op, id, status) == [op |-> op, id |-> id, status |-> status]

NoResp == Resp("none", 0, "none")

\* a done request in flight: where its handler stands, the id it names,
\* the task it has read, the date it has computed and its status
Idle == [pc |-> "idle", id |-> 0, task |-> NoTask, next |-> NoResult, status |-> "none"]

Workers == 1..MaxWorkers

(***************************************************************************)
(* State: one reference moment, one start date and one rule, the results   *)
(* of NextDate and checkRepeat on them, and a task with that date and rule *)
(* that checkDate normalises, with the outcome of every run.               *)
(***************************************************************************)
VARIABLES now, dstart, repeat, nres, vres, task, runs

\* The server: the table, the next key of the table, the answer of the
\* last request, the numbers of PUT and done requests so far, and the done
\* requests in flight.
VARIABLES store, nextId, resp, updates, dones, reqs

cvars == <<dstart, repeat, nres, vres, task, runs>>

svars == <<store, nextId, resp, updates, dones, reqs>>

vars == <<now, dstart, repeat, nres, vres, task, runs,
          store, nextId, resp, updates, dones, reqs>>

\* the server after db.Init: an empty table and no request yet
ServerInit ==
    /\ store = EmptyTable /\ nextId = 1
    /\ resp = NoResp /\ updates = 0 /\ dones = 0
    /\ reqs = [w \in Workers |-> Idle]

Init ==
    /\ now \in Nows
    /\ dstart \in DateStrs
    /\ repeat \in Rules
    /\ nres = NoResult
    /\ vres = "uncalled"
    /\ task = [date |-> dstart, repeat |-> repeat]
    /\ runs = <<>>
    /\ ServerInit

\* next, err := NextDate(now, dstart, repeat)
CallNextDate ==
    /\ nres = NoResult
    /\ runs = <<>>
    /\ nres' = NextDate(now, dstart, repeat)
    /\ UNCHANGED <<now, dstart, repeat, vres, task, runs>>
    /\ UNCHANGED svars

\* err := checkRepeat(repeat); vres is the error, "none" for nil
CallCheckRepeat ==
    /\ vres = "uncalled"
    /\ runs = <<>>
    /\ vres' = checkRepeat(repeat).err
    /\ UNCHANGED <<now, dstart, repeat, nres, task, runs>>
    /\ UNCHANGED svars

\* err := checkDate(&task), with time.Now() = now; a run that failed or
\* never returned is not followed by another
CallCheckDate ==
    /\ nres = NoResult /\ vres = "uncalled"
    /\ Len(runs) < MaxRuns
    /\ Len(runs) > 0 => runs[Len(runs)].kind = "ok"
    /\ \E r \in {checkDate(task, now)} :
           /\ task' = r.task
           /\ runs' = Append(runs, [kind |-> r.kind, err |-> r.err,
                                    from |-> task.date, date |-> r.task.date])
    /\ UNCHANGED <<now, dstart, repeat, nres, vres>>
    /\ UNCHANGED svars

Next == CallNextDate \/ CallCheckRepeat \/ CallCheckDate

Spec == Init /\ [][Next]_vars

(***************************************************************************)
(* The server: the requests on /api/task and /api/task/done, each handled  *)
(* in one step at the moment now, and the clock.                           *)
(***************************************************************************)
InitStore ==
    /\ now \in StoreNows
    /\ dstart = <<>> /\ repeat = <<>>
    /\ nres = NoResult /\ vres = "uncalled"
    /\ task = [date |-> <<>>, repeat |-> <<>>]
    /\ runs = <<>>
    /\ ServerInit

\* POST /api/task
PostTask ==
    /\ nextId <= MaxTasks
    /\ \E body \in Bodies :
         \E out \in {addTaskHandler(store, nextId, body, now)} :
            /\ store' = out.table
            /\ nextId' = IF out.status = "200" THEN nextId + 1 ELSE nextId
            /\ resp' = Resp("add", nextId, out.status)
    /\ UNCHANGED <<now, updates, dones, reqs>>
    /\ UNCHANGED cvars

\* PUT /api/task
PutTask ==
    /\ updates < MaxUpdates
    /\ \E id \in 1..MaxTasks, body \in Bodies :
         \E out \in {updateTaskHandler(store, id, body, now)} :
            /\ store' = out.table
            /\ resp' = Resp("update", id, out.status)
    /\ updates' = updates + 1
    /\ UNCHANGED <<now, nextId, dones, reqs>>
    /\ UNCHANGED cvars

\* POST /api/task/done
PostTaskDone ==
    /\ dones < MaxDone
    /\ \E id \in 1..MaxTasks :
         \E out \in {taskDone(store, id, now)} :
            /\ store' = out.table
            /\ resp' = Resp("done", id, out.status)
    /\ dones' = dones + 1
    /\ UNCHANGED <<now, nextId, updates, reqs>>
    /\ UNCHANGED cvars

\* midnight passes between two requests
Tick ==
    /\ now.day < DaysFromCivil(2024, 2, 28) + MaxTicks
    /\ now' = [now EXCEPT !.day = @ + 1]
    /\ resp' = NoResp
    /\ UNCHANGED <<store, nextId, updates, dones, reqs>>
    /\ UNCHANGED cvars

NextStore == PostTask \/ PutTask \/ PostTaskDone \/ Tick

SpecStore == InitStore /\ [][NextStore]_vars

(***************************************************************************)
(* The server with done requests in flight: a request is a goroutine that  *)
(* calls db.GetTask, then db.DeleteTask or NextDate and db.UpdateDate,     *)
(* and the calls of several requests interleave.                           *)
(***************************************************************************)
\* task, err := db.GetTask(id)
DoneGet(w) ==
    /\ reqs[w].pc = "idle"
    /\ \E id \in 1..MaxTasks :
         \E g \in {GetTask(store, id)} :
            reqs' = [reqs EXCEPT ![w] =
                        IF g.ok THEN [Idle EXCEPT !.pc = "got", !.id = id, !.task = g.task]
                        ELSE [Idle EXCEPT !.pc = "done", !.id = id, !.status = "404"]]
    /\ UNCHANGED <<now, store, nextId, resp, updates, dones>>
    /\ UNCHANGED cvars

\* err = db.DeleteTask(id), the task read having no rule
DoneDelete(w) ==
    /\ reqs[w].pc = "got" /\ reqs[w].task.repeat = <<>>
    /\ \E out \in {doneDelete(store, reqs[w].id)} :
            /\ store' = out.table
            /\ reqs' = [reqs EXCEPT ![w].pc = "done", ![w].status = out.status]
    /\ UNCHANGED <<now, nextId, resp, updates, dones>>
    /\ UNCHANGED cvars

\* nextdata, err := NextDate(time.Now(), task.Date, task.Repeat)
DoneNextDate(w) ==
    /\ reqs[w].pc = "got" /\ reqs[w].task.repeat # <<>>
    /\ \E next \in {NextDate(now, reqs[w].task.date, reqs[w].task.repeat)} :
            reqs' = [reqs EXCEPT ![w].next = next,
                                 ![w].pc = IF next.kind = "date" THEN "next"
                                           ELSE IF next.kind = "hang" THEN "hang"
                                           ELSE "done",
                                 ![w].status = IF next.kind = "error" THEN "400" ELSE "none"]
    /\ UNCHANGED <<now, store, nextId, resp, updates, dones>>
    /\ UNCHANGED cvars

\* err = db.UpdateDate(nextdata, id)
DoneUpdateDate(w) ==
    /\ reqs[w].pc = "next"
    /\ \E out \in {doneNext(store, reqs[w].id, reqs[w].next)} :
            /\ store' = out.table
            /\ reqs' = [reqs EXCEPT ![w].pc = "done", ![w].status = out.status]
    /\ UNCHANGED <<now, nextId, resp, updates, dones>>
    /\ UNCHANGED cvars

NextRace ==
    \/ PostTask
    \/ \E w \in Workers : DoneGet(w)
    \/ \E w \in Workers : DoneDelete(w)
    \/ \E w \in Workers : DoneNextDate(w)
    \/ \E w \in Workers : DoneUpdateDate(w)

SpecRace == InitStore /\ [][NextRace]_vars

(***************************************************************************)
(* Properties.                                                             *)
(***************************************************************************)

\* C1: every call of NextDate with a non-empty rule that checkRepeat
\* accepts returns, with a date or with an error.
C1_NextDateReturns ==
    (nres # NoResult /\ repeat # <<>> /\ checkRepeat(repeat).ok)
        => nres.kind \in {"date", "error"}

\* C2 as stated: for a rule "d n", 1 <= n <= 400, NextDate returns
\* start + k*n days for the least k >= 0 whose day is on or after now's
\* day, so a start on or after now's day is returned unchanged.
C2_DailyLeastFromZero ==
    LET parts == Split(repeat, " ")
        n == Atoi(parts[2])
        s == ParseDate(dstart)
        r == ParseDate(nres.val)
    IN  (/\ nres # NoResult /\ s.ok
         /\ Len(parts) = 2 /\ parts[1] = <<"d">>
         /\ n.ok /\ n.val >= 1 /\ n.val <= 400)
        => /\ nres.kind = "date" /\ r.ok
           /\ r.date >= s.date /\ (r.date - s.date) % n.val = 0
           /\ r.date >= now.day
           /\ (r.date = s.date \/ r.date - n.val < now.day)

\* C2 amended: for a rule "d n", 1 <= n <= 400, NextDate returns
\* start + k*n days for the least k >= 1 whose day is on or after now's
\* day, so a start on or after now's day gives start + n.
C2_DailyLeastFromOne ==
    LET parts == Split(repeat, " ")
        n == Atoi(parts[2])
        s == ParseDate(dstart)
        r == ParseDate(nres.val)
    IN  (/\ nres # NoResult /\ s.ok
         /\ Len(parts) = 2 /\ parts[1] = <<"d">>
         /\ n.ok /\ n.val >= 1 /\ n.val <= 400)
        => /\ nres.kind = "date" /\ r.ok
           /\ r.date > s.date /\ (r.date - s.date) % n.val = 0
           /\ r.date >= now.day
           /\ (r.date = s.date + n.val \/ r.date - n.val < now.day)

\* NextDate has returned for "d 1" and a start equal to now's day
C2_Witness ==
    /\ nres.kind = "date"
    /\ repeat = <<"d", " ", "1">>
    /\ ParseDate(dstart).ok /\ ParseDate(dstart).date = now.day
    /\ ParseDate(nres.val).date = now.day + 1

\* C3: a second run of checkDate on the task left by a successful first
\* run, at the same now, succeeds and leaves task.date as the first run
\* left it.
C3_CheckDateIdempotent ==
    (Len(runs) = 2 /\ runs[1].kind = "ok")
        => (runs[2].kind = "ok" /\ runs[2].date = runs[1].date)

\* C4: checkRepeat accepts a rule whose first token is "d" only if it has
\* exactly two tokens and the second is an integer n with 1 <= n <= 400.
C4_DailyValidated ==
    LET parts == Fields(repeat)
        n == Atoi(parts[2])
    IN  (vres = "none" /\ Len(parts) >= 1 /\ parts[1] = <<"d">>)
        => (Len(parts) = 2 /\ n.ok /\ n.val >= 1 /\ n.val <= 400)

\* C5: checkRepeat accepts a rule whose first token is "m" only if every
\* element of its day list is an integer in {-2, -1} or 1..31 and, when a
\* third token is present, every element of that list is an integer in
\* 1..12.
C5_MonthlyValidated ==
    LET parts == Fields(repeat)
        ds == Nums(Split(parts[2], ","))
        ms == Nums(Split(parts[3], ","))
    IN  (vres = "none" /\ Len(parts) >= 1 /\ parts[1] = <<"m">>)
        => /\ Len(parts) >= 2
           /\ \A i \in 1..Len(ds) : ds[i].ok /\ ds[i].val \in {-2, -1} \cup (1..31)
           /\ Len(parts) >= 3
                => \A i \in 1..Len(ms) : ms[i].ok /\ ms[i].val \in 1..12

\* C6: for a non-empty rule and a well-formed start date, checkRepeat
\* accepts the rule exactly when NextDate does not fail with a rule error.
C6_ValidatorAgreesWithNextDate ==
    (/\ vres # "uncalled" /\ nres # NoResult
     /\ repeat # <<>> /\ ParseDate(dstart).ok)
    => (vres = "none"
        <=> ~(/\ nres.kind = "error"
              /\ nres.err \in {"MissingRuleParameter", "InvalidRuleParameter",
                               "UnsupportedRuleKind"}))

\* C7 as stated: for the rule "y" NextDate returns start + k years, with
\* the month and day of start, for the least k >= 0 whose day is on or
\* after now's day.
C7_YearlySameDayFromZero ==
    LET s == ParseDate(dstart)
        c == CivilFromDays(s.date)
        r == ParseDate(nres.val)
        rc == CivilFromDays(r.date)
    IN  (nres # NoResult /\ s.ok /\ repeat = <<"y">>)
        => /\ nres.kind = "date" /\ r.ok
           /\ rc.y >= c.y /\ rc.m = c.m /\ rc.d = c.d
           /\ r.date >= now.day
           /\ (rc.y = c.y \/ GoDate(rc.y - 1, c.m, c.d) < now.day)

\* C7 amended: for the rule "y" NextDate returns the date k years after
\* start for the least k >= 1 whose day is on or after now's day, where a
\* start of 29 February counts as 1 March from the first added year on and
\* every other start keeps its month and day.
C7_YearlyFromOne ==
    LET s == ParseDate(dstart)
        c == CivilFromDays(s.date)
        feb29 == c.m = 2 /\ c.d = 29
        em == IF feb29 THEN 3 ELSE c.m
        ed == IF feb29 THEN 1 ELSE c.d
        r == ParseDate(nres.val)
        rc == CivilFromDays(r.date)
    IN  (nres # NoResult /\ s.ok /\ repeat = <<"y">>)
        => /\ nres.kind = "date" /\ r.ok
           /\ rc.y > c.y /\ rc.m = em /\ rc.d = ed
           /\ r.date >= now.day
           /\ (rc.y = c.y + 1 \/ DaysFromCivil(rc.y - 1, em, ed) < now.day)

\* NextDate has returned 1 March 2025 for "y" and a start of 29 February
\* 2024 that is on or after now's day
C7_Witness ==
    /\ repeat = <<"y">>
    /\ dstart = <<"2", "0", "2", "4", "0", "2", "2", "9">>
    /\ now.day <= DaysFromCivil(2024, 2, 29)
    /\ nres.kind = "date"
    /\ nres.val = <<"2", "0", "2", "5", "0", "3", "0", "1">>

\* C8: for a valid rule "w <list>" NextDate returns a date whose ISO
\* weekday (Monday = 1 ... Sunday = 7) is in the list, that is strictly
\* later than the moment now, and that is the earliest such date after
\* start.
C8_WeeklyEarliest ==
    LET parts == Split(repeat, " ")
        ws == Nums(Split(parts[2], ","))
        set == {ws[i].val : i \in 1..Len(ws)}
        s == ParseDate(dstart)
        r == ParseDate(nres.val)
        Iso(d) == ((d + 3) % 7) + 1
        Later(d) == d * TicksPerDay > now.day * TicksPerDay + now.tod
    IN  (/\ nres # NoResult /\ s.ok
         /\ Len(parts) = 2 /\ parts[1] = <<"w">>
         /\ \A i \in 1..Len(ws) : ws[i].ok /\ ws[i].val \in 1..7)
        => /\ nres.kind = "date" /\ r.ok
           /\ Iso(r.date) \in set /\ Later(r.date)
           /\ r.date > s.date
           /\ \A d \in (s.date + 1)..(r.date - 1) : ~(Iso(d) \in set /\ Later(d))

\* NextDate has returned for "w 7" a Sunday that is not the first Sunday
\* after start, the earlier ones being not later than now
C8_Witness ==
    /\ repeat = <<"w", " ", "7">>
    /\ nres.kind = "date"
    /\ ParseDate(dstart).ok
    /\ ParseDate(nres.val).date > ParseDate(dstart).date + 7

\* C9: for a valid rule "m <days> [<months>]" on which NextDate returns a
\* date, the month of that date is in the month list (any month without a
\* list), its day is in the day list, or is the last day of its month with
\* -1 in the list, or the day before the last with -2 in the list, the
\* date is strictly later than the moment now, and it is the first such
\* date after start.
C9_MonthlyEarliest ==
    LET parts == Split(repeat, " ")
        ds == Nums(Split(parts[2], ","))
        ms == Nums(Split(parts[3], ","))
        days == {ds[i].val : i \in 1..Len(ds)}
        months == IF Len(parts) = 3 THEN {ms[i].val : i \in 1..Len(ms)} ELSE 1..12
        s == ParseDate(dstart)
        r == ParseDate(nres.val)
        Hit(c) == /\ c.m \in months
                  /\ \/ c.d \in days
                     \/ -1 \in days /\ c.d = DaysIn(c.y, c.m)
                     \/ -2 \in days /\ c.d = DaysIn(c.y, c.m) - 1
        Later(d) == d * TicksPerDay > now.day * TicksPerDay + now.tod
    IN  (/\ nres.kind = "date" /\ s.ok
         /\ Len(parts) \in {2, 3} /\ parts[1] = <<"m">>
         /\ \A i \in 1..Len(ds) : ds[i].ok /\ ds[i].val \in {-2, -1} \cup (1..31)
         /\ Len(parts) = 3 => \A i \in 1..Len(ms) : ms[i].ok /\ ms[i].val \in 1..12)
        => /\ r.ok /\ Hit(CivilFromDays(r.date)) /\ Later(r.date)
           /\ r.date > s.date
           /\ \A d \in (s.date + 1)..(r.date - 1) :
                ~(Hit(CivilFromDays(d)) /\ Later(d))

\* NextDate has returned 29 February 2024 for "m -1"
C9_Witness ==
    /\ repeat = <<"m", " ", "-", "1">>
    /\ nres.kind = "date"
    /\ nres.val = <<"2", "0", "2", "4", "0", "2", "2", "9">>

C11_CheckDateNonRepeating ==
    \A i \in 1..Len(runs) :
        LET from == runs[i].from
            t == ParseDate(from)
            d == ParseDate(runs[i].date)
        IN  repeat = <<>>
            => /\ from = <<>>
                    => (runs[i].kind = "ok" /\ d.ok /\ d.date = now.day)
               /\ (t.ok /\ t.date < now.day)
                    => (runs[i].kind = "ok" /\ d.ok /\ d.date = now.day)
               /\ (t.ok /\ t.date >= now.day)
                    => (runs[i].kind = "ok" /\ runs[i].date = from)
               /\ (from # <<>> /\ ~t.ok)
                    => (runs[i].kind = "error" /\ runs[i].err = "InvalidDate")

\* checkDate has given today's date to a task without a rule whose date
\* was empty
C11_Witness ==
    /\ repeat = <<>>
    /\ Len(runs) >= 1 /\ runs[1].from = <<>>
    /\ runs[1].kind = "ok" /\ ParseDate(runs[1].date).date = now.day

\* C12: the error of NextDate: EmptyRule for an empty rule, whatever the
\* start date; otherwise InvalidStartDate for a start date that is not a
\* date, whatever the rule; otherwise UnsupportedRuleKind for an unknown
\* first token, MissingRuleParameter for "d", "w" or "m" alone, and
\* InvalidRuleParameter for a number that does not parse or is out of
\* range; no date comes with an error.
C12_NextDateErrors ==
    LET parts == Split(repeat, " ")
        s == ParseDate(dstart)
        n == Atoi(parts[2])
        ws == Nums(Split(parts[2], ","))
        ms == Nums(Split(parts[3], ","))
        BadNumber ==
            \/ parts[1] = <<"d">> /\ (~n.ok \/ n.val < 1 \/ n.val > 400)
            \/ parts[1] = <<"w">> /\ \E i \in 1..Len(ws) : ~ws[i].ok \/ ws[i].val \notin 1..7
            \/ parts[1] = <<"m">>
                 /\ \/ \E i \in 1..Len(ws) :
                          ~ws[i].ok \/ ws[i].val \notin ({-2, -1} \cup (1..31))
                    \/ Len(parts) = 3
                         /\ \E i \in 1..Len(ms) : ~ms[i].ok \/ ms[i].val \notin 1..12
    IN  nres # NoResult
        => /\ repeat = <<>> => (nres.kind = "error" /\ nres.err = "EmptyRule")
           /\ (repeat # <<>> /\ ~s.ok)
                => (nres.kind = "error" /\ nres.err = "InvalidStartDate")
           /\ (repeat # <<>> /\ s.ok /\ parts[1] \notin {<<"d">>, <<"y">>, <<"w">>, <<"m">>})
                => (nres.kind = "error" /\ nres.err = "UnsupportedRuleKind")
           /\ (repeat # <<>> /\ s.ok /\ parts[1] \in {<<"d">>, <<"w">>, <<"m">>}
                 /\ Len(parts) < 2)
                => (nres.kind = "error" /\ nres.err = "MissingRuleParameter")
           /\ (repeat # <<>> /\ s.ok /\ Len(parts) >= 2 /\ BadNumber)
                => (nres.kind = "error" /\ nres.err = "InvalidRuleParameter")
           /\ (s.ok /\ repeat \in { <<"d", " ", "5", "0", "0">>, <<"d", " ", "0">>,
                                    <<"w", " ", "8">>, <<"m", " ", "0">>,
                                    <<"m", " ", "1", " ", "1", "3">> })
                => (nres.kind = "error" /\ nres.err = "InvalidRuleParameter")
           /\ nres.kind = "error" => nres.val = <<>>

\* NextDate has failed with EmptyRule on an empty rule and a start date
\* that is not a date
C12_Witness ==
    /\ repeat = <<>> /\ ~ParseDate(dstart).ok
    /\ nres.kind = "error" /\ nres.err = "EmptyRule"

\* C15 as stated: for "m -1" and a start date anywhere in February, with
\* now not later than the start date, NextDate returns the 29th of that
\* February in a leap year and the 28th otherwise.
C15_AnyDayOfFebruary ==
    LET s == ParseDate(dstart)
        c == CivilFromDays(s.date)
        r == ParseDate(nres.val)
        rc == CivilFromDays(r.date)
        leap == (c.y % 4 = 0 /\ c.y % 100 # 0) \/ c.y % 400 = 0
    IN  (/\ nres # NoResult /\ repeat = <<"m", " ", "-", "1">>
         /\ s.ok /\ c.m = 2 /\ now.day <= s.date)
        => /\ nres.kind = "date" /\ r.ok
           /\ rc.y = c.y /\ rc.m = 2
           /\ rc.d = (IF leap THEN 29 ELSE 28)

\* C15: for "m -1" and a start date in February before the last day of
\* that February, with now not later than the start date, NextDate
\* returns the 29th of that February in a leap year and the 28th
\* otherwise.
C15_BeforeLastDayOfFebruary ==
    LET s == ParseDate(dstart)
        c == CivilFromDays(s.date)
        r == ParseDate(nres.val)
        rc == CivilFromDays(r.date)
        leap == (c.y % 4 = 0 /\ c.y % 100 # 0) \/ c.y % 400 = 0
    IN  (/\ nres # NoResult /\ repeat = <<"m", " ", "-", "1">>
         /\ s.ok /\ c.m = 2 /\ now.day <= s.date
         /\ c.d < (IF leap THEN 29 ELSE 28))
        => /\ nres.kind = "date" /\ r.ok
           /\ rc.y = c.y /\ rc.m = 2
           /\ rc.d = (IF leap THEN 29 ELSE 28)

\* NextDate has returned 29 February 2024 for "m -1" from 28 February 2024
C15_Witness ==
    /\ repeat = <<"m", " ", "-", "1">>
    /\ dstart = <<"2", "0", "2", "4", "0", "2", "2", "8">>
    /\ now.day <= ParseDate(dstart).date
    /\ nres.kind = "date"
    /\ nres.val = <<"2", "0", "2", "4", "0", "2", "2", "9">>

\* C13: a done request answered with 200 on the task id: a task without
\* a rule is removed from the table; a task with a rule stays with its
\* date set to NextDate(now, old date, rule) and its title, comment and
\* rule as they were; every other row of the table is as it was.
C13_TaskDoneFrame ==
    [][ \A id \in 1..MaxTasks :
          (resp' = Resp("done", id, "200") /\ dones' = dones + 1)
          => /\ id \in DOMAIN store
             /\ store[id].repeat = <<>> => DOMAIN store' = DOMAIN store \ {id}
             /\ store[id].repeat # <<>>
                  => /\ DOMAIN store' = DOMAIN store
                     /\ store'[id].date
                          = NextDate(now, store[id].date, store[id].repeat).val
                     /\ store'[id].title = store[id].title
                     /\ store'[id].comment = store[id].comment
                     /\ store'[id].repeat = store[id].repeat
             /\ \A o \in DOMAIN store \ {id} :
                    o \in DOMAIN store' /\ store'[o] = store[o] ]_vars

\* a done request has moved a task with a rule while the table holds
\* another task with another date
C13_Witness ==
    /\ resp.op = "done" /\ resp.status = "200"
    /\ resp.id \in DOMAIN store
    /\ \E o \in DOMAIN store : o # resp.id /\ store[o].date # store[resp.id].date

\* C14: the rule of every task in the table is one that checkRepeat
\* accepts.
C14_StoredRulesValidated ==
    \A id \in DOMAIN store : checkRepeat(store[id].repeat).ok

\* C16: a done request answered with 200 on a task with a rule: NextDate
\* on the task's date and rule returns a date strictly later than the
\* task's date, and the date of the task in the table after the request
\* is strictly later than before it.
C16_DoneAdvances ==
    [][ \A id \in DOMAIN store :
          (/\ resp' = Resp("done", id, "200") /\ dones' = dones + 1
           /\ store[id].repeat # <<>>)
          => /\ NextDate(now, store[id].date, store[id].repeat).kind = "date"
             /\ ParseDate(NextDate(now, store[id].date, store[id].repeat).val).date
                  > ParseDate(store[id].date).date
             /\ id \in DOMAIN store'
             /\ ParseDate(store'[id].date).ok
             /\ ParseDate(store'[id].date).date > ParseDate(store[id].date).date ]_vars

\* a done request has moved a yearly task from 2024 to 2025
C16_Witness ==
    /\ resp.op = "done" /\ resp.status = "200"
    /\ resp.id \in DOMAIN store
    /\ store[resp.id].repeat = <<"y">>
    /\ CivilFromDays(ParseDate(store[resp.id].date).date).y = 2025

\* C17: after a POST or PUT answered with 200 the task it wrote has a
\* well-formed date of today or later and a rule that is empty or on which
\* NextDate returns a date; and no done request is answered with the 400
\* of a failed NextDate, or never answered.
C17_StoredTaskDoneSucceeds ==
    /\ (resp.op \in {"add", "update"} /\ resp.status = "200")
         => /\ resp.id \in DOMAIN store
            /\ ParseDate(store[resp.id].date).ok
            /\ ParseDate(store[resp.id].date).date >= now.day
            /\ \/ store[resp.id].repeat = <<>>
               \/ NextDate(now, store[resp.id].date, store[resp.id].repeat).kind = "date"
    /\ resp.op = "done" => resp.status \in {"200", "404"}

\* a done request on a task with a rule has been answered with 200 on the
\* day after the task was created
C17_Witness ==
    /\ now.day > DaysFromCivil(2024, 2, 28)
    /\ resp.op = "done" /\ resp.status = "200"
    /\ resp.id \in DOMAIN store
    /\ store[resp.id].repeat # <<>>

\* C18: when two done requests on the same task with a rule have both been
\* answered with 200, and no other done request names that task, the date
\* of the task is the one two successive requests give: NextDate applied
\* twice to the date the first of them read.
C18_ConcurrentDoneSerial ==
    \A id \in DOMAIN store :
        LET ws == {w \in Workers : reqs[w].pc # "idle" /\ reqs[w].id = id}
            rs == {ParseDate(reqs[w].task.date).date : w \in ws}
            d0 == FormatDate(CHOOSE d \in rs : \A e \in rs : d <= e)
            rule == store[id].repeat
        IN  (/\ Cardinality(ws) = 2
             /\ \A w \in ws : /\ reqs[w].pc = "done" /\ reqs[w].status = "200"
                              /\ reqs[w].task.repeat # <<>>)
            => store[id].date
                 = NextDate(now, NextDate(now, d0, rule).val, rule).val

====
